---- MODULE Spec2Model ----
(***************************************************************************)
(* The real-time event-broadcast layer of the tourist-safety backend:     *)
(* the socket handshake verifier, the connection handler that joins       *)
(* rooms, the three event handlers that fan events out, the disconnect    *)
(* handling, the uncaught-exception handler, and the login route that     *)
(* issues the credentials presented at the handshake.                     *)
(*                                                                         *)
(* Node runs every handler to completion on one thread, so each handler   *)
(* is one action.                                                          *)
(***************************************************************************)
EXTENDS Naturals, Sequences, FiniteSets, TLC

(* ------------------------------ bounds -------------------------------- *)

\* number of events routed in one behaviour
MaxRoutes == 1
\* longest payload.contacts list a client sends
MaxContacts == 2
\* number of login requests in one behaviour
MaxLogins == 2
MaxObserved == 2  \* route calls in the runs that record what clients receive
MaxLost == 1      \* sends of one route call that may fail

\* the socket connections the clients open, each used for one session
Conns == {1, 2, 3}

(* --------------------------- JavaScript values ------------------------ *)
\* "n1" is the number 1, "s1" the string "1", "undefined" the missing value.

Undefined == "undefined"

\* `user_${v}`: the template literal converts v to a string; the number 1
\* and the string "1" give the same text.
Str(v) ==
  CASE v = "n1" -> "1"
    [] v = "s1" -> "1"
    [] v = "n2" -> "2"
    [] v = "n3" -> "3"
    [] OTHER    -> "undefined"

UserRoom(v) == "user_" \o Str(v)

AdminRoom == "admin_room"

\* the values a token's userId or a contact can be
IdVals == {"n1", "s1", "n2", "n3"}

RoomNames == {AdminRoom} \cup {UserRoom(v) : v \in IdVals \cup {Undefined}}

(* ------------------------------ credentials --------------------------- *)
\* A credential is what the client puts in handshake.auth.token: nothing,
\* or a JWT with a signature (good or not), an expiry (passed or not) and a
\* payload {userId, role}; a payload field that is absent reads as undefined.

NoToken == [present |-> FALSE, sigOK |-> FALSE, expired |-> FALSE,
            userId |-> Undefined, role |-> Undefined]

Jwt(uid, role, sigOK, expired) ==
  [present |-> TRUE, sigOK |-> sigOK, expired |-> expired,
   userId |-> uid, role |-> role]

\* jwt.sign(payload, JWT_SECRET, {expiresIn}): a well-signed, unexpired token
\* carrying exactly the payload's fields.
JwtSign(uid, role) == Jwt(uid, role, TRUE, FALSE)

\* The credentials a client can present that the login route did not issue:
\* none, tokens signed with the server's secret that carry a role, a token
\* that carries none, a tampered one and an expired one.
Credentials ==
  { NoToken,
    JwtSign("n1", "user"),
    JwtSign("n2", "admin"),
    JwtSign("s1", "government"),
    JwtSign("n1", Undefined),
    Jwt("n2", "admin", FALSE, FALSE),
    Jwt("n2", "admin", TRUE, TRUE) }

\* jwt.verify(token, JWT_SECRET) returns the payload, or throws.
JwtVerifyOK(tok) == tok.sigOK /\ ~tok.expired

\* the socket.io middleware: accept (next()) or reject (next(Error))
VerifyAcceptAll(tok) ==
  [ok |-> tok.present, userId |-> tok.userId, userRole |-> tok.role]

VerifyDefaultRole(tok) ==
  IF tok.present /\ JwtVerifyOK(tok)
    THEN [ok |-> TRUE, userId |-> tok.userId,
          userRole |-> IF tok.role = Undefined THEN "user" ELSE tok.role]
  ELSE [ok |-> FALSE, userId |-> Undefined, userRole |-> Undefined]

Verify(tok) ==
  IF ~tok.present
    THEN [ok |-> FALSE, userId |-> Undefined, userRole |-> Undefined]
  ELSE IF JwtVerifyOK(tok)
    THEN [ok |-> TRUE, userId |-> tok.userId, userRole |-> tok.role]
  ELSE [ok |-> FALSE, userId |-> Undefined, userRole |-> Undefined]

Privileged(role) == role = "admin" \/ role = "government"

(* ------------------------------- payloads ----------------------------- *)
\* The data argument of an event: undefined, null, or an object whose
\* contacts field is absent, a list, a non-empty string or the number 0.

ContactVals == {"n1", "n3"}

RECURSIVE SeqsUpTo(_, _)
SeqsUpTo(S, n) ==
  IF n = 0 THEN {<<>>}
  ELSE LET shorter == SeqsUpTo(S, n - 1)
       IN shorter \cup {Append(s, x) : s \in shorter, x \in S}

Payload(kind, ckind, clist) == [kind |-> kind, ckind |-> ckind, clist |-> clist]

Payloads ==
  { Payload("undefined", "absent", <<>>),
    Payload("null", "absent", <<>>),
    Payload("object", "absent", <<>>),
    Payload("object", "string", <<>>),
    Payload("object", "zero", <<>>) }
  \cup {Payload("object", "list", l) : l \in SeqsUpTo(ContactVals, MaxContacts)}

\* data.contacts throws a TypeError when data is undefined or null
ReadContactsThrows(data) == data.kind \in {"undefined", "null"}

\* if (data.contacts): a list (even empty) and a non-empty string are truthy
ContactsTruthy(data) == data.ckind \in {"list", "string"}

\* data.contacts.forEach is a function only for a list
HasForEach(data) == data.ckind = "list"


(* -------------------------------- state ------------------------------- *)

VARIABLES
  running,    \* the server process is alive (FALSE after process.exit)
  state,      \* per connection: Connecting, Authenticated, Joined, Closed
  cred,       \* per connection: the credential it presented at the handshake
  userId,     \* per connection: socket.userId
  userRole,   \* per connection: socket.userRole
  rooms,      \* the adapter's rooms: room name -> set of member connections
  signals,    \* per connection: 1 once a disconnect has been signalled, else 0
  last,       \* the most recent route call: origin, event, payload, deliveries
  nRoutes,    \* number of events routed so far
  users,      \* the users table: user id -> row
  issued,     \* the tokens the login route has issued
  resp,       \* the login route's most recent response
  nLogins,    \* number of login requests so far
  testLogin,  \* testDirectLogin: whether it has run, and the token it signed
  inbox,      \* per connection: the events its client has received, in order
  lost,       \* the places in last.sent of the sends that failed
  shutdown,   \* what has triggered a shutdown: none, signal, rejection
  timerArmed, \* gracefulShutdown's force-exit timer is pending
  httpClosed, \* the HTTP server's close callback has run
  exitCode    \* the code the process exited with, "none" while it runs

sockVars == <<running, state, cred, userId, userRole, rooms, signals, last, nRoutes>>
loginVars == <<users, issued, resp, nLogins, testLogin>>
obsVars == <<inbox, lost>>
shutVars == <<shutdown, timerArmed, httpClosed, exitCode>>
vars == <<running, state, cred, userId, userRole, rooms, signals, last, nRoutes,
          users, issued, resp, nLogins, testLogin, inbox, lost,
          shutdown, timerArmed, httpClosed, exitCode>>

(* ---------------------------- room registry --------------------------- *)

\* socket.join(room)
Join(rms, room, c) == [rms EXCEPT ![room] = @ \cup {c}]

\* the removal of a socket from all its rooms when it closes
LeaveAllKeepsAdmin(rms, c) ==
  [r \in DOMAIN rms |-> IF r = AdminRoom THEN rms[r] ELSE rms[r] \ {c}]

LeaveAll(rms, c) == [r \in DOMAIN rms |-> rms[r] \ {c}]

\* socket.to(room): the members of room other than the sending socket
ToIncludesSender(rms, room, sender) ==
  IF room \in DOMAIN rms THEN rms[room] ELSE {}

To(rms, room, sender) ==
  IF room \in DOMAIN rms THEN rms[room] \ {sender} ELSE {}

RECURSIVE SetToSeq(_)
SetToSeq(S) ==
  IF S = {} THEN <<>>
  ELSE LET m == CHOOSE x \in S : \A y \in S : x <= y
       IN <<m>> \o SetToSeq(S \ {m})

EmitIncludingSender(rms, sender, room, name, data) ==
  LET targets == SetToSeq(ToIncludesSender(rms, room, sender))
  IN [i \in 1..Len(targets) |->
        [to |-> targets[i], name |-> name, payload |-> data, room |-> room]]

\* socket.to(room).emit(name, data): one delivery per target member
Emit(rms, sender, room, name, data) ==
  LET targets == SetToSeq(To(rms, room, sender))
  IN [i \in 1..Len(targets) |->
        [to |-> targets[i], name |-> name, payload |-> data, room |-> room]]

(* ---------------------------- event handlers -------------------------- *)

\* socket.on('device_update')
DeviceUpdateSent(rms, c, data) == Emit(rms, c, AdminRoom, "device_update", data)

LocationUpdateBroadcast(rms, c, data) ==
  LET everyone == SetToSeq((UNION {rms[r] : r \in DOMAIN rms}) \ {c})
  IN [i \in 1..Len(everyone) |->
        [to |-> everyone[i], name |-> "location_update", payload |-> data,
         room |-> AdminRoom]]

\* socket.on('location_update')
LocationUpdateSent(rms, c, data) == Emit(rms, c, AdminRoom, "location_update", data)

\* socket.on('emergency_alert'): the admin broadcast, issued first
AlertAdminSent(rms, c, data) == Emit(rms, c, AdminRoom, "emergency_alert", data)

RECURSIVE ContactsSentReversed(_, _, _, _)
ContactsSentReversed(rms, c, data, contacts) ==
  IF contacts = <<>> THEN <<>>
  ELSE ContactsSentReversed(rms, c, data, Tail(contacts))
         \o Emit(rms, c, UserRoom(Head(contacts)), "emergency_notification", data)

ContactsSentFirstOnly(rms, c, data, contacts) ==
  IF contacts = <<>> THEN <<>>
  ELSE Emit(rms, c, UserRoom(Head(contacts)), "emergency_notification", data)

\* data.contacts.forEach(contact => socket.to(`user_${contact}`).emit(...))
RECURSIVE ContactsSent(_, _, _, _)
ContactsSent(rms, c, data, contacts) ==
  IF contacts = <<>> THEN <<>>
  ELSE Emit(rms, c, UserRoom(Head(contacts)), "emergency_notification", data)
       \o ContactsSent(rms, c, data, Tail(contacts))

\* the handler throws a TypeError reading data.contacts of undefined or null,
\* or calling forEach on a truthy contacts that is not a list
EmergencyAlertThrows(data) ==
  \/ ReadContactsThrows(data)
  \/ ContactsTruthy(data) /\ ~HasForEach(data)

EmergencyAlertSent(rms, c, data) ==
  IF EmergencyAlertThrows(data)
    THEN AlertAdminSent(rms, c, data)
  ELSE IF ContactsTruthy(data)
    THEN AlertAdminSent(rms, c, data) \o ContactsSent(rms, c, data, data.clist)
  ELSE AlertAdminSent(rms, c, data)


(* ------------------------------ login route --------------------------- *)

\* the rows of the users table when the server starts
UsersTable ==
  [id \in {"n1", "n2", "n3"} |->
     CASE id = "n1" -> [email |-> "alice@x.io", status |-> "active", role |-> "user",
                        password |-> "pw-alice", updatedAt |-> 0]
       [] id = "n2" -> [email |-> "bob@x.io", status |-> "active", role |-> "admin",
                        password |-> "pw-bob", updatedAt |-> 0]
       [] id = "n3" -> [email |-> "tourist@test.com", status |-> "suspended",
                        role |-> "government", password |-> "password123",
                        updatedAt |-> 0]]

\* request bodies: the email and password fields a client posts
EmailInputs == {"alice@x.io", "BOB@X.IO", "tourist@test.com", "nobody@x.io",
                "not-an-email"}
PasswordInputs == {"", "pw-alice", "pw-bob", "password123"}

\* body('email').isEmail()
IsEmail(e) == e # "not-an-email"

\* normalizeEmail() and email.toLowerCase()
LowerCase(e) == IF e = "BOB@X.IO" THEN "bob@x.io" ELSE e

\* bcrypt.compare(password, user.password)
BcryptCompare(pw, hash) == pw = hash

\* generateToken(userId): the payload is {userId} alone
GenerateToken(uid) == JwtSign(uid, Undefined)

NoResp == [status |-> 0, token |-> NoToken]
ErrorResp(code) == [status |-> code, token |-> NoToken]

\* router.post('/login'): dbFail names the call that fails, if any: a database
\* call, or jwt.sign inside generateToken (no JWT_SECRET in the environment)
Login(email, password, dbFail) ==
  /\ running
  /\ nLogins < MaxLogins
  /\ nLogins' = nLogins + 1
  /\ LET rows == {id \in DOMAIN users : users[id].email = LowerCase(email)}
     IN IF ~(IsEmail(email) /\ password # "")
          THEN /\ resp' = ErrorResp(400)
               /\ UNCHANGED <<users, issued>>
        ELSE IF dbFail \in {"connect", "select"}
          THEN /\ resp' = ErrorResp(500)
               /\ UNCHANGED <<users, issued>>
        ELSE IF rows = {}
          THEN /\ resp' = ErrorResp(401)
               /\ UNCHANGED <<users, issued>>
        ELSE LET id == CHOOSE i \in rows : TRUE
                 user == users[id]
             IN IF user.status # "active"
                  THEN /\ resp' = ErrorResp(401)
                       /\ UNCHANGED <<users, issued>>
                ELSE IF ~BcryptCompare(password, user.password)
                  THEN /\ resp' = ErrorResp(401)
                       /\ UNCHANGED <<users, issued>>
                ELSE IF dbFail = "update"
                  THEN /\ resp' = ErrorResp(500)
                       /\ UNCHANGED <<users, issued>>
                ELSE IF dbFail = "sign"
                  THEN /\ users' = [users EXCEPT ![id].updatedAt = nLogins + 1]
                       /\ resp' = ErrorResp(500)
                       /\ UNCHANGED issued
                ELSE /\ users' = [users EXCEPT ![id].updatedAt = nLogins + 1]
                     /\ issued' = issued \cup {GenerateToken(id)}
                     /\ resp' = [status |-> 200, token |-> GenerateToken(id)]
  /\ UNCHANGED testLogin
  /\ UNCHANGED sockVars
  /\ UNCHANGED obsVars
  /\ UNCHANGED shutVars

\* the account testDirectLogin logs in with
TestEmail == "tourist@test.com"
TestPassword == "password123"

NotTested == [done |-> FALSE, token |-> NoToken]
Tested(tok) == [done |-> TRUE, token |-> tok]

\* testDirectLogin(), started once when the file is loaded: it signs a token
\* for the test account when the row exists and the password matches, and
\* logs it; fail names the call that throws into its catch block, if any
TestDirectLogin(fail) ==
  /\ running
  /\ ~testLogin.done
  /\ LET rows == {id \in DOMAIN users : users[id].email = LowerCase(TestEmail)}
     IN IF fail \in {"connect", "select"} \/ rows = {}
          THEN testLogin' = Tested(NoToken)
        ELSE LET id == CHOOSE i \in rows : TRUE
             IN IF BcryptCompare(TestPassword, users[id].password) /\ fail # "sign"
                  THEN testLogin' = Tested(JwtSign(id, Undefined))
                ELSE testLogin' = Tested(NoToken)
  /\ UNCHANGED <<users, issued, resp, nLogins>>
  /\ UNCHANGED sockVars
  /\ UNCHANGED obsVars
  /\ UNCHANGED shutVars

(* ----------------------------- socket layer --------------------------- *)

NoRoute == [origin |-> 0, name |-> "none", payload |-> Payload("undefined", "absent", <<>>),
            sent |-> <<>>, threw |-> FALSE]

Init ==
  /\ running = TRUE
  /\ state = [c \in Conns |-> "Connecting"]
  /\ cred = [c \in Conns |-> NoToken]
  /\ userId = [c \in Conns |-> Undefined]
  /\ userRole = [c \in Conns |-> Undefined]
  /\ rooms = [r \in RoomNames |-> {}]
  /\ signals = [c \in Conns |-> 0]
  /\ last = NoRoute
  /\ nRoutes = 0
  /\ users = UsersTable
  /\ issued = {}
  /\ resp = NoResp
  /\ nLogins = 0
  /\ testLogin = NotTested
  /\ inbox = [c \in Conns |-> <<>>]
  /\ lost = {}
  /\ shutdown = "none"
  /\ timerArmed = FALSE
  /\ httpClosed = FALSE
  /\ exitCode = "none"

\* io.use(...): the handshake of connection c presenting credential tok
Shake(c, tok) ==
  /\ running
  /\ state[c] = "Connecting"
  /\ cred' = [cred EXCEPT ![c] = tok]
  /\ LET v == Verify(tok)
     IN IF v.ok
          THEN /\ state' = [state EXCEPT ![c] = "Authenticated"]
               /\ userId' = [userId EXCEPT ![c] = v.userId]
               /\ userRole' = [userRole EXCEPT ![c] = v.userRole]
        ELSE /\ state' = [state EXCEPT ![c] = "Closed"]
             /\ UNCHANGED <<userId, userRole>>
  /\ UNCHANGED <<running, rooms, signals, last, nRoutes>>
  /\ UNCHANGED loginVars
  /\ UNCHANGED obsVars
  /\ UNCHANGED shutVars

\* a client connects with a credential of its own making
Handshake(c) == \E tok \in Credentials : Shake(c, tok)

\* a client connects with a token the login route gave out
HandshakeIssued(c) == \E tok \in issued : Shake(c, tok)

\* the rooms the connection handler joins
JoinRoomsAll(rms, c, uid, role) == Join(Join(rms, UserRoom(uid), c), AdminRoom, c)

JoinRoomsAdminOnly(rms, c, uid, role) ==
  IF Privileged(role) THEN Join(rms, AdminRoom, c) ELSE Join(rms, UserRoom(uid), c)

JoinRoomsPersonalOnly(rms, c, uid, role) == Join(rms, UserRoom(uid), c)

JoinRooms(rms, c, uid, role) ==
  IF Privileged(role)
    THEN Join(Join(rms, UserRoom(uid), c), AdminRoom, c)
  ELSE Join(rms, UserRoom(uid), c)

\* io.on('connection', ...): joins the rooms and registers the event handlers
OnConnectionAgain(c) ==
  /\ running
  /\ state[c] \in {"Authenticated", "Closed"}
  /\ cred[c].present /\ JwtVerifyOK(cred[c])
  /\ rooms' = JoinRooms(rooms, c, userId[c], userRole[c])
  /\ state' = [state EXCEPT ![c] = "Joined"]
  /\ UNCHANGED <<running, cred, userId, userRole, signals, last, nRoutes>>
  /\ UNCHANGED loginVars
  /\ UNCHANGED obsVars
  /\ UNCHANGED shutVars

OnConnection(c) ==
  /\ running
  /\ state[c] = "Authenticated"
  /\ rooms' = JoinRooms(rooms, c, userId[c], userRole[c])
  /\ state' = [state EXCEPT ![c] = "Joined"]
  /\ UNCHANGED <<running, cred, userId, userRole, signals, last, nRoutes>>
  /\ UNCHANGED loginVars
  /\ UNCHANGED obsVars
  /\ UNCHANGED shutVars

\* the transport closes connection c (peer close, network failure, explicit
\* close): the socket leaves its rooms, then the 'disconnect' handler logs
Disconnect(c) ==
  /\ running
  /\ state[c] \in {"Authenticated", "Joined"}
  /\ rooms' = LeaveAll(rooms, c)
  /\ state' = [state EXCEPT ![c] = "Closed"]
  /\ signals' = [signals EXCEPT ![c] = 1]
  /\ UNCHANGED <<running, cred, userId, userRole, last, nRoutes>>
  /\ UNCHANGED loginVars
  /\ UNCHANGED obsVars
  /\ UNCHANGED shutVars

\* the transport signals the disconnect of a closed connection once more:
\* the removal from all rooms is applied again
DisconnectAgain(c) ==
  /\ running
  /\ state[c] = "Closed"
  /\ signals[c] = 1
  /\ rooms' = LeaveAll(rooms, c)
  /\ signals' = [signals EXCEPT ![c] = 1]
  /\ UNCHANGED <<running, state, cred, userId, userRole, last, nRoutes>>
  /\ UNCHANGED loginVars
  /\ UNCHANGED obsVars
  /\ UNCHANGED shutVars

\* one route call that returns normally
Routed(c, name, data, sent) ==
  /\ running
  /\ state[c] = "Joined"
  /\ nRoutes < MaxRoutes
  /\ nRoutes' = nRoutes + 1
  /\ last' = [origin |-> c, name |-> name, payload |-> data, sent |-> sent,
              threw |-> FALSE]
  /\ UNCHANGED <<running, state, cred, userId, userRole, rooms, signals>>
  /\ UNCHANGED loginVars
  /\ UNCHANGED obsVars
  /\ UNCHANGED shutVars

\* the deliveries of sent that reached their sockets, keep being their places
Flushed(sent, keep) ==
  LET idx == SetToSeq(keep)
  IN [i \in 1..Len(idx) |-> sent[idx[i]]]

\* process.on('uncaughtException'): a handler that throws ends the process
\* with process.exit(1); what it had emitted may or may not have been written
\* to the sockets by then
Crashed(c, name, data, sent) ==
  /\ running
  /\ state[c] = "Joined"
  /\ nRoutes < MaxRoutes
  /\ nRoutes' = nRoutes + 1
  /\ \E keep \in SUBSET (1..Len(sent)) :
       last' = [origin |-> c, name |-> name, payload |-> data,
                sent |-> Flushed(sent, keep), threw |-> TRUE]
  /\ running' = FALSE
  /\ exitCode' = "1"
  /\ UNCHANGED <<state, cred, userId, userRole, rooms, signals>>
  /\ UNCHANGED loginVars
  /\ UNCHANGED obsVars
  /\ UNCHANGED <<shutdown, timerArmed, httpClosed>>

\* the payloads tried on the two handlers that do not read the payload
PlainPayloads ==
  { Payload("undefined", "absent", <<>>),
    Payload("null", "absent", <<>>),
    Payload("object", "list", <<"n1">>) }

DeviceUpdate(c) ==
  \E data \in PlainPayloads :
    Routed(c, "device_update", data, DeviceUpdateSent(rooms, c, data))

LocationUpdate(c) ==
  \E data \in PlainPayloads :
    Routed(c, "location_update", data, LocationUpdateSent(rooms, c, data))

EmergencyAlert(c) ==
  \E data \in Payloads :
    IF EmergencyAlertThrows(data)
      THEN Crashed(c, "emergency_alert", data, EmergencyAlertSent(rooms, c, data))
    ELSE Routed(c, "emergency_alert", data, EmergencyAlertSent(rooms, c, data))

Next ==
  \/ \E c \in Conns : Handshake(c)
  \/ \E c \in Conns : OnConnection(c)
  \/ \E c \in Conns : Disconnect(c)
  \/ \E c \in Conns : DisconnectAgain(c)
  \/ \E c \in Conns : DeviceUpdate(c)
  \/ \E c \in Conns : LocationUpdate(c)
  \/ \E c \in Conns : EmergencyAlert(c)

Spec == Init /\ [][Next]_vars


\* The clients log in first and connect with the tokens the login route
\* gave them.
NextLogin ==
  \/ \E e \in EmailInputs, p \in PasswordInputs,
        f \in {"none", "connect", "select", "update", "sign"} : Login(e, p, f)
  \/ \E f \in {"none", "connect", "select", "sign"} : TestDirectLogin(f)
  \/ \E c \in Conns : HandshakeIssued(c)
  \/ \E c \in Conns : OnConnection(c)
  \/ \E c \in Conns : Disconnect(c)
  \/ \E c \in Conns : DeviceUpdate(c)
  \/ \E c \in Conns : LocationUpdate(c)
  \/ \E c \in Conns : EmergencyAlert(c)

SpecLogin == Init /\ [][NextLogin]_vars


(* ------------------- what the clients receive, in order ---------------- *)

\* the credential each client presents in the observed runs
ObservedCred(c) ==
  CASE c = 1 -> JwtSign("n2", "admin")
    [] c = 2 -> JwtSign("s1", "government")
    [] OTHER -> JwtSign("n1", "user")

HandshakeObserved(c) == Shake(c, ObservedCred(c))

\* the emergency_alert payloads of the observed runs
ObservedPayloads ==
  { Payload("null", "absent", <<>>),
    Payload("object", "absent", <<>>),
    Payload("object", "list", <<"n1">>),
    Payload("object", "list", <<"n2", "n1">>) }

\* the sets of places of sent whose send may fail
FailSets(sent) == {f \in SUBSET (1..Len(sent)) : Cardinality(f) <= MaxLost}

\* what a client keeps of a delivery: the route call it came from and its
\* origin, the event name and the place of the delivery in that call
Received(n, c, sent, i) == [n |-> n, from |-> c, name |-> sent[i].name, at |-> i]

\* the n-th route call's deliveries reach the clients: a failed send stops
\* the fan-out, so nothing after it arrives
DeliverUntilFailure(inb, c, sent, fail, n) ==
  [d \in Conns |->
     inb[d] \o [k \in 1..Len(SetToSeq({i \in 1..Len(sent) :
                              sent[i].to = d /\ \A j \in fail : i < j})) |->
                  Received(n, c, sent, SetToSeq({i \in 1..Len(sent) :
                              sent[i].to = d /\ \A j \in fail : i < j})[k])]]

\* the n-th route call's deliveries reach the clients: each client's
\* transport takes the packets addressed to it in the order they were
\* emitted; a send in fail is dropped, the others are not affected
Deliver(inb, c, sent, fail, n) ==
  [d \in Conns |->
     LET mine == SetToSeq({i \in 1..Len(sent) : sent[i].to = d /\ i \notin fail})
     IN inb[d] \o [k \in 1..Len(mine) |-> Received(n, c, sent, mine[k])]]

\* one observed route call that returns normally
RoutedObs(c, name, data, sent) ==
  /\ running
  /\ state[c] = "Joined"
  /\ nRoutes < MaxObserved
  /\ nRoutes' = nRoutes + 1
  /\ last' = [origin |-> c, name |-> name, payload |-> data, sent |-> sent,
              threw |-> FALSE]
  /\ \E fail \in FailSets(sent) :
       /\ lost' = fail
       /\ inbox' = Deliver(inbox, c, sent, fail, nRoutes + 1)
  /\ UNCHANGED <<running, state, cred, userId, userRole, rooms, signals>>
  /\ UNCHANGED loginVars
  /\ UNCHANGED shutVars

\* one observed route call whose handler throws: the process exits
CrashedObs(c, name, data, sent) ==
  /\ running
  /\ state[c] = "Joined"
  /\ nRoutes < MaxObserved
  /\ nRoutes' = nRoutes + 1
  /\ \E keep \in SUBSET (1..Len(sent)) :
       /\ last' = [origin |-> c, name |-> name, payload |-> data,
                   sent |-> Flushed(sent, keep), threw |-> TRUE]
       /\ lost' = (1..Len(sent)) \ keep
       /\ inbox' = Deliver(inbox, c, sent, (1..Len(sent)) \ keep, nRoutes + 1)
  /\ running' = FALSE
  /\ exitCode' = "1"
  /\ UNCHANGED <<state, cred, userId, userRole, rooms, signals>>
  /\ UNCHANGED loginVars
  /\ UNCHANGED <<shutdown, timerArmed, httpClosed>>

DeviceUpdateObs(c) ==
  LET data == Payload("object", "absent", <<>>)
  IN RoutedObs(c, "device_update", data, DeviceUpdateSent(rooms, c, data))

LocationUpdateObs(c) ==
  LET data == Payload("object", "absent", <<>>)
  IN RoutedObs(c, "location_update", data, LocationUpdateSent(rooms, c, data))

EmergencyAlertObs(c) ==
  \E data \in ObservedPayloads :
    IF EmergencyAlertThrows(data)
      THEN CrashedObs(c, "emergency_alert", data, EmergencyAlertSent(rooms, c, data))
    ELSE RoutedObs(c, "emergency_alert", data, EmergencyAlertSent(rooms, c, data))

NextObserved ==
  \/ \E c \in Conns : HandshakeObserved(c)
  \/ \E c \in Conns : OnConnection(c)
  \/ \E c \in Conns : Disconnect(c)
  \/ \E c \in Conns : DeviceUpdateObs(c)
  \/ \E c \in Conns : LocationUpdateObs(c)
  \/ \E c \in Conns : EmergencyAlertObs(c)

SpecObserved == Init /\ [][NextObserved]_vars


(* ------------------------------- shutdown ------------------------------ *)

\* the connections the HTTP server still holds open
OpenConns == {c \in Conns : state[c] \in {"Authenticated", "Joined"}}

\* the handshake of a new client, possible while the server is listening
HandshakeListening(c) ==
  /\ shutdown = "none"
  /\ HandshakeObserved(c)

\* gracefulShutdown, on SIGTERM or SIGINT: server.close(callback) and the
\* 10 s force-exit timer
GracefulShutdown(sig) ==
  /\ running
  /\ sig \in {"SIGTERM", "SIGINT"}
  /\ shutdown' = IF shutdown \in {"rejection", "both"} THEN "both" ELSE "signal"
  /\ timerArmed' = TRUE
  /\ UNCHANGED <<httpClosed, exitCode>>
  /\ UNCHANGED sockVars
  /\ UNCHANGED loginVars
  /\ UNCHANGED obsVars

\* process.on('unhandledRejection'): server.close(callback) and nothing else
UnhandledRejection ==
  /\ running
  /\ shutdown' = IF shutdown \in {"signal", "both"} THEN "both" ELSE "rejection"
  /\ UNCHANGED <<timerArmed, httpClosed, exitCode>>
  /\ UNCHANGED sockVars
  /\ UNCHANGED loginVars
  /\ UNCHANGED obsVars

\* the HTTP server emits 'close' once it has stopped listening and its last
\* connection has ended: the callbacks given to server.close run. The one of
\* unhandledRejection exits with 1; the one of gracefulShutdown starts
\* closing the database connection
CloseCallback ==
  /\ running
  /\ shutdown # "none"
  /\ ~httpClosed
  /\ OpenConns = {}
  /\ httpClosed' = TRUE
  /\ IF shutdown = "signal"
       THEN UNCHANGED <<running, exitCode>>
     ELSE running' = FALSE /\ exitCode' = "1"
  /\ UNCHANGED <<shutdown, timerArmed>>
  /\ UNCHANGED <<state, cred, userId, userRole, rooms, signals, last, nRoutes>>
  /\ UNCHANGED loginVars
  /\ UNCHANGED obsVars

\* the database connection has closed: process.exit(0), or process.exit(1)
\* when closing it failed
DbClosed ==
  /\ running
  /\ httpClosed
  /\ running' = FALSE
  /\ \E code \in {"0", "1"} : exitCode' = code
  /\ UNCHANGED <<shutdown, timerArmed, httpClosed>>
  /\ UNCHANGED <<state, cred, userId, userRole, rooms, signals, last, nRoutes>>
  /\ UNCHANGED loginVars
  /\ UNCHANGED obsVars

\* the force-exit timer of gracefulShutdown fires: process.exit(1)
ForceExit ==
  /\ running
  /\ timerArmed
  /\ running' = FALSE
  /\ exitCode' = "1"
  /\ UNCHANGED <<shutdown, timerArmed, httpClosed>>
  /\ UNCHANGED <<state, cred, userId, userRole, rooms, signals, last, nRoutes>>
  /\ UNCHANGED loginVars
  /\ UNCHANGED obsVars

NextShutdown ==
  \/ \E c \in Conns : HandshakeListening(c)
  \/ \E c \in Conns : OnConnection(c)
  \/ \E c \in Conns : Disconnect(c)
  \/ \E c \in Conns : DeviceUpdate(c)
  \/ \E c \in Conns : LocationUpdate(c)
  \/ \E c \in Conns : EmergencyAlert(c)
  \/ \E sig \in {"SIGTERM", "SIGINT"} : GracefulShutdown(sig)
  \/ UnhandledRejection
  \/ CloseCallback
  \/ DbClosed
  \/ ForceExit

\* The event loop runs a timer that is due and a callback that is ready;
\* nothing makes a client close its connection.
SpecShutdown ==
  /\ Init
  /\ [][NextShutdown]_vars
  /\ WF_vars(ForceExit)
  /\ WF_vars(CloseCallback)
  /\ WF_vars(DbClosed)


(* ======================== properties of the model ===================== *)

InNoRoom(c) == \A r \in RoomNames : c \notin rooms[r]

\* the connections that a sequence of deliveries reaches with event `name`
Recipients(sent, name) ==
  {sent[i].to : i \in {j \in 1..Len(sent) : sent[j].name = name}}

\* the number of deliveries of event `name` in a sequence of deliveries
Count(sent, name) == Cardinality({j \in 1..Len(sent) : sent[j].name = name})

\* the step is connection a's route call of event `name`
RouteStep(a, name) ==
  /\ nRoutes' = nRoutes + 1
  /\ last'.origin = a
  /\ last'.name = name

\* the credential passes the signature and expiry checks
GoodCredential(tok) == tok.present /\ tok.sigOK /\ ~tok.expired

\* the handshake of c ended in a rejection / in an accepted socket
Rejected(c) == state[c] = "Closed" /\ signals[c] = 0
Accepted(c) == state[c] \in {"Authenticated", "Joined"} \/ signals[c] >= 1

(* C1: a Joined connection is in the room user_<its subject id>, and it is  *)
(* in admin_room exactly when its role is admin or government; a connection *)
(* whose role is anything else, or absent, is never in admin_room.          *)
C1_JoinedRooms ==
  \A c \in Conns :
    /\ state[c] = "Joined" =>
         /\ c \in rooms[UserRoom(userId[c])]
         /\ c \in rooms[AdminRoom] <=> userRole[c] \in {"admin", "government"}
    /\ userRole[c] \notin {"admin", "government"} => c \notin rooms[AdminRoom]

C1_Witness ==
  \E c, d \in Conns :
    /\ state[c] = "Joined" /\ userRole[c] = "government" /\ c \in rooms[AdminRoom]
    /\ state[d] = "Joined" /\ userRole[d] = Undefined /\ d \in rooms[UserRoom("n1")]

(* C2: a connection that has closed is a member of no room.                 *)
C2_ClosedInNoRoom ==
  \A c \in Conns : state[c] = "Closed" => InNoRoom(c)

C2_Witness ==
  \E c \in Conns :
    /\ state[c] = "Closed"
    /\ last.origin = c
    /\ userRole[c] = "admin"
    /\ \E d \in Conns : d # c /\ d \in rooms[AdminRoom]

(* C3: a device_update routed by connection a reaches every member of       *)
(* admin_room other than a, each once, with the payload a sent, and reaches *)
(* nobody else: not a, and no connection outside admin_room.                *)
C3_DeviceUpdateFanOut ==
  [][\A a \in Conns :
       RouteStep(a, "device_update") =>
         /\ Recipients(last'.sent, "device_update") = rooms[AdminRoom] \ {a}
         /\ Len(last'.sent) = Cardinality(rooms[AdminRoom] \ {a})
         /\ \A i \in 1..Len(last'.sent) :
              /\ last'.sent[i].name = "device_update"
              /\ last'.sent[i].payload = last'.payload
              /\ last'.sent[i].to # a
         /\ ~last'.threw
         /\ running']_vars

C3_Witness ==
  /\ last.name = "device_update"
  /\ last.origin \in rooms[AdminRoom]
  /\ Recipients(last.sent, "device_update") # {}
  /\ \E d \in Conns : state[d] = "Joined" /\ d \notin rooms[AdminRoom] /\ d # last.origin

(* C4: an emergency_alert whose contacts is a list [X, Y] reaches, as       *)
(* emergency_alert, the members of admin_room and, as                       *)
(* emergency_notification with the same payload, the members of user_X and  *)
(* of user_Y (the sender excepted, as in every fan-out); a contact room     *)
(* without members adds no delivery and no error.                           *)
C4_EmergencyFanOut ==
  [][\A a \in Conns :
       (/\ RouteStep(a, "emergency_alert")
        /\ last'.payload.ckind = "list"
        /\ Len(last'.payload.clist) = 2) =>
         LET X == last'.payload.clist[1]
             Y == last'.payload.clist[2]
             sent == last'.sent
         IN /\ Recipients(sent, "emergency_alert") = rooms[AdminRoom] \ {a}
            /\ Count(sent, "emergency_alert") = Cardinality(rooms[AdminRoom] \ {a})
            /\ Recipients(sent, "emergency_notification")
                 = (rooms[UserRoom(X)] \cup rooms[UserRoom(Y)]) \ {a}
            /\ Count(sent, "emergency_notification")
                 = Cardinality(rooms[UserRoom(X)] \ {a})
                   + Cardinality(rooms[UserRoom(Y)] \ {a})
            /\ \A i \in 1..Len(sent) :
                 /\ sent[i].name \in {"emergency_alert", "emergency_notification"}
                 /\ sent[i].payload = last'.payload
            /\ ~last'.threw
            /\ running']_vars

C4_Witness ==
  /\ last.name = "emergency_alert"
  /\ last.payload.clist = <<"n3", "n1">>
  /\ rooms[UserRoom("n3")] = {}
  /\ Recipients(last.sent, "emergency_notification") # {}
  /\ Recipients(last.sent, "emergency_alert") # {}
  /\ running

(* C5: when a connection b with a non-privileged role routes a              *)
(* location_update while an admin connection a is Joined, a receives it, b  *)
(* receives nothing, only members of admin_room receive anything (so the    *)
(* members of b's personal room, none of them privileged, receive nothing)  *)
(* and no room's membership changes.                                        *)
C5_LocationScenario ==
  [][\A a, b \in Conns :
       (/\ RouteStep(b, "location_update")
        /\ state[a] = "Joined" /\ userRole[a] = "admin"
        /\ userRole[b] \notin {"admin", "government"}) =>
         LET got == {last'.sent[i].to : i \in 1..Len(last'.sent)}
             own == rooms[UserRoom(userId[b])]
         IN /\ a \in Recipients(last'.sent, "location_update")
            /\ b \notin got
            /\ got \subseteq rooms[AdminRoom]
            /\ own \cap rooms[AdminRoom] = {} => own \cap got = {}
            /\ rooms' = rooms]_vars

C5_Witness ==
  /\ last.name = "location_update"
  /\ userRole[last.origin] = "user"
  /\ Cardinality(rooms[UserRoom(userId[last.origin])]) >= 2
  /\ rooms[UserRoom(userId[last.origin])] \cap rooms[AdminRoom] = {}
  /\ \E a \in Conns : userRole[a] = "admin" /\ a \in Recipients(last.sent, "location_update")

(* C6: the handshake rejects a connection that presents no credential or a  *)
(* credential failing the signature or expiry check, and accepts one with a *)
(* good credential, setting its subject id and role to exactly the userId   *)
(* and role the credential carries.                                         *)
C6_VerifyExact ==
  \A c \in Conns :
    state[c] # "Connecting" =>
      IF GoodCredential(cred[c])
        THEN /\ Accepted(c)
             /\ userId[c] = cred[c].userId
             /\ userRole[c] = cred[c].role
      ELSE /\ Rejected(c)
           /\ userId[c] = Undefined
           /\ userRole[c] = Undefined

C6_Witness ==
  \E b, c, d \in Conns :
    /\ Rejected(b) /\ ~cred[b].present
    /\ Rejected(c) /\ cred[c].present /\ cred[c].expired
    /\ Accepted(d) /\ cred[d].role = Undefined /\ userRole[d] = Undefined

(* C7: a connection whose authentication failed is Closed, is a member of   *)
(* no room, and is the origin of no routed event.                           *)
C7_FailedAuthNeverRegistered ==
  \A c \in Conns :
    (state[c] # "Connecting" /\ ~GoodCredential(cred[c])) =>
      /\ state[c] = "Closed"
      /\ InNoRoom(c)
      /\ last.origin # c

C7_Witness ==
  \E c \in Conns :
    /\ state[c] = "Closed" /\ cred[c].present /\ ~cred[c].sigOK
    /\ nRoutes > 0
    /\ rooms[AdminRoom] # {}

(* C8: no routed event, whatever its payload, makes its handler raise, and  *)
(* the server process keeps running.                                        *)
C8_RouteNeverRaises == running /\ ~last.threw

(* C9: once Closed, a connection stays Closed and in no room whatever       *)
(* happens next, and removing it from all rooms once more, as a repeated    *)
(* disconnect signal does, leaves every room's members as they are.         *)
C9_CloseIdempotentTerminal ==
  [][\A c \in Conns :
       state[c] = "Closed" =>
         /\ state'[c] = "Closed"
         /\ \A r \in RoomNames : c \notin rooms'[r]
         /\ signals[c] = 1 =>
              \A r \in RoomNames : (rooms[r] \ {c}) = rooms[r]
         /\ (signals[c] = 1 /\ signals' = signals /\ state' = state
               /\ last' = last /\ running' = running) => rooms' = rooms]_vars

C9_Witness ==
  \E c \in Conns :
    /\ state[c] = "Closed"
    /\ signals[c] = 1
    /\ last.origin = c
    /\ \E d \in Conns : d # c /\ d \in rooms[UserRoom(userId[c])]

(* C10: a user whose stored role is admin or government, connected with the *)
(* token the login route issued, is a member of admin_room once Joined.     *)
C10_LoginAdminInAdminRoom ==
  \A c \in Conns :
    (/\ state[c] = "Joined"
     /\ cred[c] \in issued
     /\ users[cred[c].userId].role \in {"admin", "government"}) =>
      c \in rooms[AdminRoom]


\* the rooms connection c is a member of
RoomsOf(c) == {r \in RoomNames : c \in rooms[r]}
RoomsOfNext(c) == {r \in RoomNames : c \in rooms'[r]}

\* the rooms a connection with c's subject id and role is entitled to
OwnRooms(c) ==
  {UserRoom(userId[c])}
    \cup (IF userRole[c] \in {"admin", "government"} THEN {AdminRoom} ELSE {})

(* C12: a Joined connection is a member of exactly user_<its subject id>,   *)
(* plus admin_room when its role is privileged, and a connection that is    *)
(* not Joined of no room; no route call, an emergency_alert naming the      *)
(* connection as a contact included, changes any room; so no connection is  *)
(* in a personal room other than the one named after its own subject id.    *)
C12_ExactRooms ==
  [][/\ \A c \in Conns :
          /\ RoomsOf(c) = IF state[c] = "Joined" THEN OwnRooms(c) ELSE {}
          /\ RoomsOfNext(c) = IF state'[c] = "Joined" THEN OwnRooms(c)' ELSE {}
          /\ \A v \in IdVals \cup {Undefined} :
               (state[c] = "Joined" /\ UserRoom(v) # UserRoom(userId[c]))
                 => c \notin rooms[UserRoom(v)]
     /\ nRoutes' # nRoutes => rooms' = rooms]_vars

C12_Witness ==
  \E c \in Conns :
    /\ last.name = "emergency_alert"
    /\ last.origin # c
    /\ userId[c] = "n1"
    /\ c \in Recipients(last.sent, "emergency_notification")
    /\ state[c] = "Joined"
    /\ RoomsOf(c) = {UserRoom("n1")}
    /\ rooms[UserRoom(userId[last.origin])] = {last.origin}

(* C14: no delivery of a route call, of any of the three events, goes to    *)
(* the connection that made the call: not when it is in admin_room, and not *)
(* when an emergency_alert lists its own subject id among the contacts.     *)
C14_OriginExcluded ==
  [][\A a \in Conns :
       (nRoutes' = nRoutes + 1 /\ last'.origin = a) =>
         \A i \in 1..Len(last'.sent) : last'.sent[i].to # a]_vars

C14_Witness ==
  /\ last.name = "emergency_alert"
  /\ userRole[last.origin] = "government"
  /\ last.origin \in rooms[AdminRoom]
  /\ last.origin \in rooms[UserRoom("n1")]
  /\ last.payload.clist = <<"n1">>
  /\ Recipients(last.sent, "emergency_notification") # {}
  /\ Recipients(last.sent, "emergency_alert") # {}

(* C16: every route call computes its targets from member sets in which     *)
(* each connection is in all of its rooms or in none: no call sees a        *)
(* privileged connection in its personal room and not yet in admin_room,    *)
(* and the admin_room deliveries go to exactly the privileged Joined        *)
(* connections other than the origin.                                       *)
C16_NoPartialMembership ==
  [][\A a \in Conns :
       (nRoutes' = nRoutes + 1 /\ last'.origin = a /\ ~last'.threw) =>
         /\ \A c \in Conns : RoomsOf(c) \in {{}, OwnRooms(c)}
         /\ {last'.sent[i].to : i \in {j \in 1..Len(last'.sent) :
                                         last'.sent[j].room = AdminRoom}}
              = {c \in Conns : /\ state[c] = "Joined"
                               /\ userRole[c] \in {"admin", "government"}
                               /\ c # a}]_vars

C16_Witness ==
  \E c, d \in Conns :
    /\ last.name = "device_update"
    /\ c \in Recipients(last.sent, "device_update")
    /\ RoomsOf(c) = {UserRoom(userId[c]), AdminRoom}
    /\ state[d] = "Authenticated"
    /\ userRole[d] = "admin"
    /\ d \notin Recipients(last.sent, "device_update")

\* the number of deliveries of event `name` to connection c
CountTo(sent, name, c) ==
  Cardinality({j \in 1..Len(sent) : sent[j].name = name /\ sent[j].to = c})

(* C18 as claimed: in one route call no connection receives the same event  *)
(* name twice, whatever the contacts list.                                  *)
C18_AtMostOncePerName ==
  \A c \in Conns :
    \A name \in {"device_update", "location_update", "emergency_alert",
                 "emergency_notification"} :
      CountTo(last.sent, name, c) <= 1

(* C18 as amended: in one route call a connection receives device_update,   *)
(* location_update and emergency_alert at most once, and                    *)
(* emergency_notification once for every place of the contacts list that    *)
(* names a room it is a member of: once at most when the list names each    *)
(* room once, k times when it names the connection's room k times.          *)
C18_OncePerContactPlace ==
  [][\A a \in Conns :
       (nRoutes' = nRoutes + 1 /\ last'.origin = a /\ ~last'.threw) =>
         \A c \in Conns :
           /\ \A name \in {"device_update", "location_update", "emergency_alert"} :
                CountTo(last'.sent, name, c) <= 1
           /\ CountTo(last'.sent, "emergency_notification", c)
                = IF last'.name = "emergency_alert" /\ c # a
                    THEN Cardinality({k \in 1..Len(last'.payload.clist) :
                                        c \in rooms[UserRoom(last'.payload.clist[k])]})
                  ELSE 0]_vars

C18_Witness ==
  \E c \in Conns :
    /\ last.name = "emergency_alert"
    /\ last.payload.clist = <<"n1", "n1">>
    /\ CountTo(last.sent, "emergency_notification", c) = 2


\* the checks the login route makes before it answers 200
LoginChecksPass(email, password) ==
  /\ IsEmail(email)
  /\ password # ""
  /\ \E id \in DOMAIN users :
       /\ users[id].email = LowerCase(email)
       /\ users[id].status = "active"
       /\ BcryptCompare(password, users[id].password)

(* C17 as claimed: a login issues a token only when validation passes, the  *)
(* user exists, is active and the password matches; every other login       *)
(* answers 400, 401 or 500 without a token; and updated_at is written only  *)
(* by a login that succeeds. Both login operations are covered: the route   *)
(* and testDirectLogin.                                                     *)
C17_TokenOnlyOnCheckedLogin ==
  [][/\ \A e \in EmailInputs, p \in PasswordInputs,
          f \in {"none", "connect", "select", "update", "sign"} :
          Login(e, p, f) =>
            /\ resp'.token # NoToken => LoginChecksPass(e, p)
            /\ resp'.token = NoToken => resp'.status \in {400, 401, 500}
            /\ resp'.status # 200 => resp'.token = NoToken /\ users' = users
     /\ testLogin'.token # testLogin.token =>
          /\ LoginChecksPass(TestEmail, TestPassword)
          /\ users' = users]_vars


(* C11: a route call made after connection c's disconnect has been          *)
(* signalled addresses no delivery to c and adds nothing to what c's        *)
(* client has received.                                                     *)
C11_NoDeliveryAfterDisconnect ==
  [][\A c \in Conns :
       (signals[c] = 1 /\ nRoutes' = nRoutes + 1) =>
         /\ inbox'[c] = inbox[c]
         /\ \A i \in 1..Len(last'.sent) : last'.sent[i].to # c]_vars

C11_Witness ==
  \E c \in Conns :
    /\ signals[c] = 1
    /\ userRole[c] = "admin"
    /\ nRoutes = 2
    /\ last.origin # c
    /\ last.name = "device_update"
    /\ lost = {}
    /\ Len(last.sent) > 0
    /\ Len(inbox[c]) > 0
    /\ \A k \in 1..Len(inbox[c]) : inbox[c][k].n = 1

(* C13: whichever sends of a route call fail, a call whose handler can     *)
(* read its payload returns normally and the process keeps running, every   *)
(* delivery whose send did not fail reaches its client, and every other     *)
(* member of admin_room none of whose sends failed receives the routed      *)
(* event.                                                                   *)
C13_FailedSendIsolated ==
  [][\A a \in Conns :
       (/\ nRoutes' = nRoutes + 1
        /\ last'.origin = a
        /\ ~(last'.name = "emergency_alert" /\ EmergencyAlertThrows(last'.payload))) =>
         /\ ~last'.threw
         /\ running'
         /\ \A i \in 1..Len(last'.sent) :
              i \notin lost' =>
                \E k \in 1..Len(inbox'[last'.sent[i].to]) :
                  inbox'[last'.sent[i].to][k] = Received(nRoutes', a, last'.sent, i)
         /\ \A d \in rooms[AdminRoom] \ {a} :
              (\A j \in lost' : last'.sent[j].to # d) =>
                \E k \in 1..Len(inbox'[d]) :
                  /\ inbox'[d][k].n = nRoutes'
                  /\ inbox'[d][k].name = last'.name]_vars

C13_Witness ==
  \E j \in lost :
    \E i \in 1..Len(last.sent) :
      /\ running
      /\ ~last.threw
      /\ i > j
      /\ i \notin lost
      /\ last.sent[i].to # last.sent[j].to
      /\ \E k \in 1..Len(inbox[last.sent[i].to]) :
           inbox[last.sent[i].to][k] = Received(nRoutes, last.origin, last.sent, i)
      /\ \A k \in 1..Len(inbox[last.sent[j].to]) :
           inbox[last.sent[j].to][k].n # nRoutes

\* the places of the contacts list that name room r
PlacesOf(clist, r) == {k \in 1..Len(clist) : UserRoom(clist[k]) = r}

\* what a client received is in the order of the route calls, and within one
\* call in the order of the emits
InboxOrdered(inb) ==
  \A d \in Conns :
    \A k, l \in 1..Len(inb[d]) :
      k < l => \/ inb[d][k].n < inb[d][l].n
               \/ inb[d][k].n = inb[d][l].n /\ inb[d][k].at < inb[d][l].at

(* C15: every client receives the events of earlier route calls before      *)
(* those of later ones, so e1 before e2 when one connection routes e1 and   *)
(* then e2; and the deliveries of one emergency_alert call are issued       *)
(* admin_room first, then the contact rooms in the order of                 *)
(* payload.contacts.                                                        *)
C15_DeliveredInOrder ==
  [][/\ InboxOrdered(inbox')
     /\ (nRoutes' = nRoutes + 1 /\ last'.name = "emergency_alert" /\ ~last'.threw) =>
          \A i, j \in 1..Len(last'.sent) :
            i < j =>
              \/ last'.sent[i].room = AdminRoom
              \/ /\ last'.sent[j].room # AdminRoom
                 /\ \E k \in PlacesOf(last'.payload.clist, last'.sent[i].room) :
                      \E l \in PlacesOf(last'.payload.clist, last'.sent[j].room) :
                        k <= l]_vars

C15_Witness ==
  \E d \in Conns :
    \E k, l \in 1..Len(inbox[d]) :
      /\ k < l
      /\ inbox[d][k].n = 1
      /\ inbox[d][l].n = 2
      /\ inbox[d][k].from = inbox[d][l].from
      /\ last.name = "emergency_alert"
      /\ last.payload.clist = <<"n2", "n1">>
      /\ Recipients(last.sent, "emergency_alert") # {}
      /\ rooms[UserRoom("n2")] \ {last.origin} # {}
      /\ rooms[UserRoom("n1")] \ {last.origin} # {}


(* C19 as claimed: once a shutdown has been triggered, by SIGTERM, SIGINT   *)
(* or an unhandled promise rejection, the process eventually exits, also    *)
(* when open connections keep the close callback from running.              *)
C19_ShutdownExits == (shutdown # "none") ~> ~running

====
